---- MODULE Spec2Model ----
(***************************************************************************)
(* Model of the AI-Gift Concierge web application (src/app.py).            *)
(*                                                                         *)
(* State: the module-level configuration (OPENAI_API_KEY, openai), the     *)
(* installed framework's get_json behaviour, and for every /generate       *)
(* request its position in generate() / generate_gift_suggestions() and    *)
(* its local variables.                                                    *)
(*                                                                         *)
(* Two specifications share the actions:                                   *)
(*   Spec    - NReq concurrent requests over small input sets;             *)
(*   SpecSeq - one request over every body and every completion outcome    *)
(*             within the bounds.                                          *)
(***************************************************************************)
EXTENDS Integers, Sequences, FiniteSets, TLC

\* ------------------------------------------------------------------ bounds
NReq == 2
MaxItems == 2

VARIABLES
    OPENAI_API_KEY,   \* module global, set once at import
    openai,           \* module global: "module" or "None"
    werkzeug,         \* get_json on a non-JSON mimetype: "silent" | "400" | "415"
    pc,               \* per request: position in the handler
    body,             \* per request: the inbound request
    args,             \* per request: <<occasion, budget, interests>> after strip
    calls,            \* per request: number of ChatCompletion.create calls issued
    outcome,          \* per request: what the completion call produced
    result,           \* per request: value returned by generate_gift_suggestions
    ret,              \* per request: source line of the return taken (0: none yet)
    raised,           \* per request: exception that left generate_gift_suggestions
    status,           \* per request: HTTP status of the response (0: none yet)
    resp,             \* per request: the "suggestions" value of the response
    held              \* per request: the returned list as the caller now holds it

vars == <<OPENAI_API_KEY, openai, werkzeug, pc, body, args, calls, outcome,
          result, ret, raised, status, resp, held>>

config == <<OPENAI_API_KEY, openai, werkzeug>>

\* ------------------------------------------------------------ JSON values
\* A scalar JSON value: a string, null or a number.
Str(s) == [t |-> "str", s |-> s]
Null == [t |-> "null", s |-> ""]
Num == [t |-> "num", s |-> "5"]

\* Python truthiness of a configuration value (None and "" are falsy).
Truthy(x) == x.t = "str" /\ x.s # ""

REQUIRED == {"name", "description", "search_term"}

\* An element of the parsed completion: a JSON object (o: key -> scalar),
\* a number, null, a string (a: the words it is made of) or a nested array
\* (a: its elements, all strings).
NoObj == [k \in {} |-> Null]
ObjItem(o) == [t |-> "obj", o |-> o, a |-> <<>>]
NumItem == [t |-> "num", o |-> NoObj, a |-> <<>>]
NullItem == [t |-> "null", o |-> NoObj, a |-> <<>>]
StrItem(words) == [t |-> "str", o |-> NoObj, a |-> words]
ArrItem(elems) == [t |-> "arr", o |-> NoObj, a |-> elems]

\* The parsed completion: an array, or an object / string (whose iteration
\* yields its keys / its characters, as strings), or a number or null.
Top(t, items) == [t |-> t, items |-> items]

\* The outcome of the completion call: it raised, its message content is
\* None, its content is text that is not JSON, or text that parses to v.
Raise == [kind |-> "raise", v |-> Top("null", <<>>)]
ContentNone == [kind |-> "none", v |-> Top("null", <<>>)]
Garbage == [kind |-> "garbage", v |-> Top("null", <<>>)]
Json(v) == [kind |-> "json", v |-> v]
NoCall == [kind |-> "nocall", v |-> Top("null", <<>>)]

\* ---------------------------------------------------------------- fallback
FALLBACK_LIST ==
    << [name |-> Str("Aromatherapie-Duftkerzen-Set"),
        description |-> Str("Ein Set beruhigender Duftkerzen, ideal zur Entspannung."),
        search_term |-> Str("Aromatherapie Duftkerzen Set")],
       [name |-> Str("Kabellose Bluetooth-Kopfhoerer"),
        description |-> Str("Komfortable Kopfhoerer mit langer Akkulaufzeit und sattem Sound."),
        search_term |-> Str("Kabellose Bluetooth Kopfhoerer")],
       [name |-> Str("Personalisierte Fototasse"),
        description |-> Str("Eine Tasse mit individuellem Foto - perfektes Geschenk fuer jeden Anlass."),
        search_term |-> Str("Personalisierte Fototasse")] >>

\* A fallback_suggestions that hands out one shared list object: once a caller
\* has a fallback result, every later call returns that same object.
fallback_suggestions_shared ==
    IF \E r \in DOMAIN pc : ret[r] \in {83, 129} /\ status[r] # 0
    THEN held[CHOOSE r \in DOMAIN pc : ret[r] \in {83, 129} /\ status[r] # 0]
    ELSE FALLBACK_LIST

\* fallback_suggestions(): a new list, built from literals, on every call.
fallback_suggestions == FALLBACK_LIST

\* ------------------------------------------------------- the inbound request
FIELDS == <<"occasion", "budget", "interests">>

\* A value of a field of the request's JSON object; a string is the sequence
\* of its characters.
FStr(c) == [t |-> "str", c |-> c]
FNum == [t |-> "num", c |-> <<>>]
FNull == [t |-> "null", c |-> <<>>]

\* The payload of a request: empty, unparsable, or JSON that parses to an
\* object (o: field -> value), an array or number (n: its length / value) or
\* null.
NoFields == [f \in {} |-> FNull]
Payload(k, o, n) == [k |-> k, o |-> o, n |-> n]
EmptyBody == Payload("empty", NoFields, 0)
GarbageBody == Payload("garbage", NoFields, 0)
ObjBody(o) == Payload("obj", o, 0)
PyNone == Payload("null", NoFields, 0)

\* Python truthiness of a parsed payload: None, {}, [], 0 are falsy.
PyTruthy(d) ==
    CASE d.k = "obj" -> DOMAIN d.o # {}
      [] d.k \in {"arr", "num"} -> d.n # 0
      [] OTHER -> FALSE

\* request.get_json(): an HTTP error to abort with, or the parsed value.
\* A mimetype that is not JSON gives None, 400 or 415 depending on the
\* installed framework; JSON that does not parse gives 400.
get_json(b, wz) ==
    IF b.ctype # "json"
    THEN IF wz = "silent" THEN [abort |-> 0, data |-> PyNone]
         ELSE IF wz = "400" THEN [abort |-> 400, data |-> PyNone]
         ELSE [abort |-> 415, data |-> PyNone]
    ELSE IF b.payload.k \in {"empty", "garbage"}
         THEN [abort |-> 400, data |-> PyNone]
         ELSE [abort |-> 0, data |-> b.payload]

\* str.strip(): drop leading and trailing whitespace.
RECURSIVE LStrip(_)
LStrip(c) == IF c # <<>> /\ Head(c) = " " THEN LStrip(Tail(c)) ELSE c
RECURSIVE RStrip(_)
RStrip(c) ==
    IF c # <<>> /\ c[Len(c)] = " " THEN RStrip(SubSeq(c, 1, Len(c) - 1)) ELSE c
strip(c) == RStrip(LStrip(c))

\* data.get(f, "").strip(): the stripped string, or an AttributeError when
\* data has no get (a list, a number) or the value has no strip.
GetStripped(d, f) ==
    IF d.k # "obj" THEN [exc |-> "AttributeError", c |-> <<>>]
    ELSE LET v == IF f \in DOMAIN d.o THEN d.o[f] ELSE FStr(<<>>)
         IN IF v.t # "str" THEN [exc |-> "AttributeError", c |-> <<>>]
            ELSE [exc |-> "none", c |-> strip(v.c)]

\* Lines 145-148 of generate(): the HTTP error get_json aborts with, the
\* exception an extraction raises, or the three stripped arguments.
ParseRequest(b, wz) ==
    LET gj == get_json(b, wz)
        data == IF PyTruthy(gj.data) THEN gj.data ELSE ObjBody(NoFields)
        g == [i \in 1..3 |-> GetStripped(data, FIELDS[i])]
    IN IF gj.abort # 0
       THEN [abort |-> gj.abort, exc |-> "none", args |-> <<>>]
       ELSE IF \E i \in 1..3 : g[i].exc # "none"
            THEN [abort |-> 0, exc |-> "AttributeError", args |-> <<>>]
            ELSE [abort |-> 0, exc |-> "none", args |-> [i \in 1..3 |-> g[i].c]]

\* ------------------------------------------- generate_gift_suggestions
\* The guard of line 82 with "and" for "or".
NotConfiguredAnd(key, mod) == ~Truthy(key) /\ mod = "None"

\* Line 82: not OPENAI_API_KEY or openai is None.
NotConfigured(key, mod) == ~Truthy(key) \/ mod = "None"

\* k in item: a key of an object, a substring of a string, an element of a
\* list. (For a number or None it is a TypeError: see HasAll.)
Contains(k, item) ==
    CASE item.t = "obj" -> k \in DOMAIN item.o
      [] item.t \in {"str", "arr"} -> \E i \in 1..Len(item.a) : item.a[i] = k
      [] OTHER -> FALSE

\* Line 118, all(k in item for k in (...)): "yes", "no", or the TypeError
\* the first membership test raises on a number or None.
HasAll(item) ==
    IF item.t \in {"num", "null"} THEN "TypeError"
    ELSE IF \A k \in REQUIRED : Contains(k, item) THEN "yes" ELSE "no"

\* An append that keeps the whole element instead of copying three values.
CopyWholeItem(item) ==
    IF item.t = "obj" THEN [exc |-> "none", val |-> item.o]
    ELSE [exc |-> "TypeError", val |-> NoObj]

\* Lines 119-123: the dict of the three values item[k]; subscripting a
\* string or a list with a key is a TypeError.
CopyItem(item) ==
    IF item.t = "obj"
    THEN [exc |-> "none", val |-> [k \in REQUIRED |-> item.o[k]]]
    ELSE [exc |-> "TypeError", val |-> NoObj]

\* Lines 116-123: the loop over the parsed value from element i on, with the
\* accepted suggestions so far; it ends with the list or with the exception
\* an element raised.
RECURSIVE Loop(_, _, _)
Loop(items, i, valid) ==
    IF i > Len(items) THEN [exc |-> "none", valid |-> valid]
    ELSE LET h == HasAll(items[i])
         IN IF h = "TypeError" THEN [exc |-> "TypeError", valid |-> valid]
            ELSE IF h = "no" THEN Loop(items, i + 1, valid)
            ELSE LET c == CopyItem(items[i])
                 IN IF c.exc # "none" THEN [exc |-> c.exc, valid |-> valid]
                    ELSE Loop(items, i + 1, Append(valid, c.val))

\* Line 124 without its test: return valid, empty or not.
ReturnsValidAlways(valid) == TRUE

\* Line 124: if valid.
ReturnsValid(valid) == valid # <<>>

\* Lines 102-125, the body of the try given what the call produced: the
\* exception it raises, or the list it returns, or neither (it falls through).
TryBody(out) ==
    LET Exc(e) == [exc |-> e, returned |-> FALSE, val |-> <<>>]
    IN CASE out.kind = "raise" -> Exc("APIError")
         [] out.kind = "none" -> Exc("TypeError")
         [] out.kind = "garbage" -> Exc("JSONDecodeError")
         [] OTHER ->
              IF out.v.t \in {"num", "null"} THEN Exc("TypeError")
              ELSE LET lp == Loop(out.v.items, 1, <<>>)
                   IN IF lp.exc # "none" THEN Exc(lp.exc)
                      ELSE [exc |-> "none", returned |-> ReturnsValid(lp.valid),
                            val |-> lp.valid]

\* An except clause that names the parse error only.
CatchesDecodeErrorOnly(e) == e = "JSONDecodeError"

\* Line 126, except Exception: every exception of the try body is caught.
Catches(e) == e \in {"APIError", "TypeError", "JSONDecodeError"}

\* ------------------------------------------------------------- input sets
SeqsUpTo(S, n) == UNION {[1..m -> S] : m \in 0..n}

\* Objects of the completion: with the three keys or with a fourth key, every
\* value the key's own name, "" or null; and one with search_term missing.
Val(p, k) == IF p = "own" THEN Str(k) ELSE IF p = "empty" THEN Str("") ELSE Null
GoodItem == ObjItem([k \in REQUIRED |-> Str(k)])
ExtraItem == ObjItem([k \in REQUIRED \cup {"url"} |-> Str("")])
ShortItem == ObjItem([k \in REQUIRED \ {"search_term"} |-> Str(k)])
Objects ==
    {ObjItem([k \in K |-> Val(p, k)]) :
        K \in {REQUIRED, REQUIRED \cup {"url"}}, p \in {"own", "empty", "null"}}
    \cup {ShortItem}
NonObjects ==
    {NumItem, NullItem, StrItem(<<"x">>),
     StrItem(<<"name", "description", "search_term">>),
     ArrItem(<<"name", "description", "search_term">>)}
Items == Objects \cup NonObjects

\* What the completion text can parse to.
Tops ==
    {Top("arr", s) : s \in SeqsUpTo(Items, MaxItems)}
    \cup {Top("num", <<>>), Top("null", <<>>), Top("str", <<StrItem(<<"x">>)>>),
          Top("obj", <<StrItem(<<"suggestions">>)>>),
          Top("obj", <<StrItem(<<"name", "description", "search_term">>)>>)}
Outcomes == {Raise, ContentNone, Garbage} \cup {Json(v) : v \in Tops}

SmallOutcomes ==
    {Raise, Garbage, Json(Top("arr", <<GoodItem>>)),
     Json(Top("arr", <<ShortItem, ExtraItem>>))}

\* Request bodies: with a JSON mimetype every payload; without one a few.
FieldVals == {FStr(<<" ", "a", " ">>), FNum, FNull}
FieldNames == {FIELDS[i] : i \in 1..3}
ObjBodies == {ObjBody(o) : o \in UNION {[K -> FieldVals] : K \in SUBSET FieldNames}}
Payloads ==
    ObjBodies \cup {EmptyBody, GarbageBody, PyNone, Payload("num", NoFields, 0),
                    Payload("num", NoFields, 5), Payload("arr", NoFields, 0),
                    Payload("arr", NoFields, 1)}
Req(ctype, payload) == [ctype |-> ctype, payload |-> payload]
Bodies ==
    {Req("json", p) : p \in Payloads}
    \cup {Req("other", p) : p \in {EmptyBody, GarbageBody,
                                   ObjBody([f \in FieldNames |-> FStr(<<" ", "a", " ">>)])}}
SmallBodies ==
    {Req("json", ObjBody([f \in {"occasion"} |-> FStr(<<" ", "a", " ">>)])),
     Req("json", ObjBody([f \in {"occasion"} |-> FNum])),
     Req("json", GarbageBody),
     Req("other", EmptyBody)}

\* The module-level try/except of lines 27-39: the import failed (both
\* None), or it succeeded and the environment gave no key, "" or a key.
Startups ==
    {<<Null, "None">>, <<Null, "module">>, <<Str(""), "module">>,
     <<Str("sk-test"), "module">>}

\* ------------------------------------------------------------------ actions
NoArgs == <<>>

InitOver(R) ==
    /\ \E s \in Startups : OPENAI_API_KEY = s[1] /\ openai = s[2]
    /\ werkzeug \in {"silent", "400", "415"}
    /\ pc = [r \in R |-> "idle"]
    /\ body = [r \in R |-> Req("other", EmptyBody)]
    /\ args = [r \in R |-> NoArgs]
    /\ calls = [r \in R |-> 0]
    /\ outcome = [r \in R |-> NoCall]
    /\ result = [r \in R |-> <<>>]
    /\ ret = [r \in R |-> 0]
    /\ raised = [r \in R |-> "none"]
    /\ status = [r \in R |-> 0]
    /\ resp = [r \in R |-> <<>>]
    /\ held = [r \in R |-> <<>>]

\* A client posts body b to /generate.
Request(r, b) ==
    /\ pc[r] = "idle"
    /\ body' = [body EXCEPT ![r] = b]
    /\ pc' = [pc EXCEPT ![r] = "handler"]
    /\ UNCHANGED <<config, args, calls, outcome, result, ret, raised, status, resp, held>>

\* generate(), lines 145-148: parse the body and extract the three fields.
\* An HTTP error of get_json is the response; an exception is a 500.
generate_parse(r) ==
    /\ pc[r] = "handler"
    /\ LET p == ParseRequest(body[r], werkzeug)
       IN IF p.abort # 0 \/ p.exc # "none"
          THEN /\ status' = [status EXCEPT ![r] = IF p.abort # 0 THEN p.abort ELSE 500]
               /\ pc' = [pc EXCEPT ![r] = "done"]
               /\ UNCHANGED args
          ELSE /\ args' = [args EXCEPT ![r] = p.args]
               /\ pc' = [pc EXCEPT ![r] = "gen"]
               /\ UNCHANGED status
    /\ UNCHANGED <<config, body, calls, outcome, result, ret, raised, resp, held>>

\* generate_gift_suggestions, lines 82-83.
gen_check(r) ==
    /\ pc[r] = "gen"
    /\ IF NotConfigured(OPENAI_API_KEY, openai)
       THEN /\ result' = [result EXCEPT ![r] = fallback_suggestions]
            /\ ret' = [ret EXCEPT ![r] = 83]
            /\ pc' = [pc EXCEPT ![r] = "respond"]
       ELSE /\ pc' = [pc EXCEPT ![r] = "call"]
            /\ UNCHANGED <<result, ret>>
    /\ UNCHANGED <<config, body, args, calls, outcome, raised, status, resp, held>>

\* Lines 85-110: build the prompts and issue the completion call.
gen_call(r) ==
    /\ pc[r] = "call"
    /\ calls' = [calls EXCEPT ![r] = @ + 1]
    /\ pc' = [pc EXCEPT ![r] = "wait"]
    /\ UNCHANGED <<config, body, args, outcome, result, ret, raised, status, resp, held>>

\* The completion service answers the call of request r, or the call fails.
service_reply(r, out) ==
    /\ pc[r] = "wait"
    /\ outcome' = [outcome EXCEPT ![r] = out]
    /\ pc' = [pc EXCEPT ![r] = "process"]
    /\ UNCHANGED <<config, body, args, calls, result, ret, raised, status, resp, held>>

\* A gen_process that calls the service a second time when the first
\* attempt gave nothing usable.
gen_process_retry(r) ==
    /\ pc[r] = "process"
    /\ LET t == TryBody(outcome[r])
       IN IF t.exc = "none" /\ t.returned
          THEN /\ result' = [result EXCEPT ![r] = t.val]
               /\ ret' = [ret EXCEPT ![r] = 125]
               /\ pc' = [pc EXCEPT ![r] = "respond"]
          ELSE IF calls[r] < 2
               THEN /\ pc' = [pc EXCEPT ![r] = "call"]
                    /\ UNCHANGED <<result, ret>>
               ELSE /\ result' = [result EXCEPT ![r] = fallback_suggestions]
                    /\ ret' = [ret EXCEPT ![r] = 129]
                    /\ pc' = [pc EXCEPT ![r] = "respond"]
    /\ UNCHANGED <<config, body, args, calls, outcome, raised, status, resp, held>>

\* A gen_process whose except clause switches the client off for the process.
gen_process_disables(r) ==
    /\ pc[r] = "process"
    /\ LET t == TryBody(outcome[r])
       IN /\ IF t.exc = "none" /\ t.returned
             THEN /\ result' = [result EXCEPT ![r] = t.val]
                  /\ ret' = [ret EXCEPT ![r] = 125]
             ELSE /\ result' = [result EXCEPT ![r] = fallback_suggestions]
                  /\ ret' = [ret EXCEPT ![r] = 129]
          /\ openai' = IF t.exc # "none" THEN "None" ELSE openai
    /\ pc' = [pc EXCEPT ![r] = "respond"]
    /\ UNCHANGED <<OPENAI_API_KEY, werkzeug, body, args, calls, outcome, raised,
                   status, resp, held>>

\* Lines 111-129: read the content, parse it, validate the elements, and
\* return the accepted list (line 125) or, after a caught exception or an
\* empty list, the fallback (line 129). An exception the except clause does
\* not catch leaves the function.
gen_process(r) ==
    /\ pc[r] = "process"
    /\ LET t == TryBody(outcome[r])
       IN IF t.exc # "none" /\ ~Catches(t.exc)
          THEN /\ raised' = [raised EXCEPT ![r] = t.exc]
               /\ UNCHANGED <<result, ret>>
          ELSE IF t.exc = "none" /\ t.returned
               THEN /\ result' = [result EXCEPT ![r] = t.val]
                    /\ ret' = [ret EXCEPT ![r] = 125]
                    /\ UNCHANGED raised
               ELSE /\ result' = [result EXCEPT ![r] = fallback_suggestions]
                    /\ ret' = [ret EXCEPT ![r] = 129]
                    /\ UNCHANGED raised
    /\ pc' = [pc EXCEPT ![r] = "respond"]
    /\ UNCHANGED <<config, body, args, calls, outcome, status, resp, held>>

\* generate(), lines 149-150: the call has returned; jsonify the list as a
\* 200 response. An exception out of the call is the framework's 500.
generate_respond(r) ==
    /\ pc[r] = "respond"
    /\ IF raised[r] # "none"
       THEN /\ status' = [status EXCEPT ![r] = 500]
            /\ UNCHANGED <<resp, held>>
       ELSE /\ status' = [status EXCEPT ![r] = 200]
            /\ resp' = [resp EXCEPT ![r] = result[r]]
            /\ held' = [held EXCEPT ![r] = result[r]]
    /\ pc' = [pc EXCEPT ![r] = "done"]
    /\ UNCHANGED <<config, body, args, calls, outcome, result, ret, raised>>

\* The caller of generate_gift_suggestions changes the list it was given
\* (it removes the first entry).
CallerMutates(r) ==
    /\ pc[r] = "done"
    /\ status[r] = 200
    /\ held[r] # <<>>
    /\ held[r] = result[r]
    /\ held' = [held EXCEPT ![r] = Tail(@)]
    /\ UNCHANGED <<config, pc, body, args, calls, outcome, result, ret, raised,
                   status, resp>>

\* ----------------------------------------------------------- specifications
Reqs == 1..NReq

Init == InitOver(Reqs)

Next ==
    \/ \E r \in Reqs, b \in SmallBodies : Request(r, b)
    \/ \E r \in Reqs : generate_parse(r)
    \/ \E r \in Reqs : gen_check(r)
    \/ \E r \in Reqs : gen_call(r)
    \/ \E r \in Reqs, out \in SmallOutcomes : service_reply(r, out)
    \/ \E r \in Reqs : gen_process(r)
    \/ \E r \in Reqs : generate_respond(r)
    \/ \E r \in Reqs : CallerMutates(r)

Spec == Init /\ [][Next]_vars

InitSeq == InitOver({1})

NextSeq ==
    \/ \E b \in Bodies : Request(1, b)
    \/ generate_parse(1)
    \/ gen_check(1)
    \/ gen_call(1)
    \/ \E out \in Outcomes : service_reply(1, out)
    \/ gen_process(1)
    \/ generate_respond(1)

SpecSeq == InitSeq /\ [][NextSeq]_vars

\* ------------------------------------------------------------------ claims
\* generate_gift_suggestions was entered for r and has ended.
GenEnded(r) == pc[r] \in {"respond", "done"} /\ Len(args[r]) = 3

\* The element is an object with the three required keys.
IsValidObject(item) == item.t = "obj" /\ REQUIRED \subseteq DOMAIN item.o

\* The valid objects of items, in order, each cut down to the three keys.
FilterMap(items) ==
    LET sel == SelectSeq(items, IsValidObject)
    IN [i \in 1..Len(sel) |-> [k \in REQUIRED |-> sel[i].o[k]]]

\* The call of request r failed or produced nothing acceptable: it raised,
\* there is no text, the text is not JSON, or no element of the parsed value
\* is an object with the three keys (an empty array among them).
NothingUsable(out) ==
    \/ out.kind \in {"raise", "none", "garbage"}
    \/ /\ out.kind = "json"
       /\ \A i \in 1..Len(out.v.items) : ~IsValidObject(out.v.items[i])

\* C1: generate_gift_suggestions never lets an exception out and, whatever the
\* configuration and whatever the call produced, ends by returning a
\* non-empty list.
C1_NeverFailsOutward ==
    \A r \in DOMAIN pc :
        /\ raised[r] = "none"
        /\ GenEnded(r) => ret[r] # 0 /\ result[r] # <<>>

\* An exception raised while validating (a number among the elements) was
\* absorbed into the fallback list.
C1_Witness ==
    \E r \in DOMAIN pc :
        /\ GenEnded(r) /\ ret[r] = 129
        /\ outcome[r].kind = "json" /\ outcome[r].v.t = "arr"
        /\ \E i \in 1..Len(outcome[r].v.items) : outcome[r].v.items[i].t = "num"

\* The bodies the claim names: absent or empty, not parsable, or a JSON
\* object (fields missing or of any type).
NamedBody(b) == b.payload.k \in {"empty", "garbage", "obj"}

\* C2 (as claimed): every finished POST /generate whose body is absent, not
\* parsable or a JSON object with missing or non-string fields was answered
\* with HTTP 200 and a non-empty suggestions list.
C2_AlwaysOK ==
    \A r \in DOMAIN pc :
        pc[r] = "done" /\ NamedBody(body[r]) => status[r] = 200 /\ resp[r] # <<>>

\* C3 (as claimed): in every returned list every suggestion has the three
\* fields with non-null, non-empty string values.
C3_FieldsNonEmptyStrings ==
    \A r \in DOMAIN pc :
        ret[r] # 0 =>
            \A i \in 1..Len(result[r]) : \A k \in REQUIRED :
                /\ k \in DOMAIN result[r][i]
                /\ result[r][i][k].t = "str"
                /\ result[r][i][k].s # ""

\* C4: with no key configured or no client module, the request makes no call
\* to the completion service and generate_gift_suggestions returns exactly the
\* fixed fallback list, for every argument triple.
C4_NoCredentialFallback ==
    \A r \in DOMAIN pc :
        (OPENAI_API_KEY.t # "str" \/ OPENAI_API_KEY.s = "" \/ openai = "None") =>
            /\ calls[r] = 0
            /\ outcome[r] = NoCall
            /\ GenEnded(r) => ret[r] = 83 /\ result[r] = FALLBACK_LIST

\* The client module is there, the key is not, and a request with non-empty
\* arguments was answered.
C4_Witness ==
    \E r \in DOMAIN pc :
        /\ pc[r] = "done" /\ status[r] = 200
        /\ openai = "module" /\ OPENAI_API_KEY = Null
        /\ args[r] = <<<<"a">>, <<"a">>, <<"a">>>>

\* C5: when the call was made and it raised, or gave text that is not JSON, or
\* an empty array, or a value none of whose elements is an object with the
\* three keys, generate_gift_suggestions returns the fixed fallback list.
C5_FailuresConverge ==
    \A r \in DOMAIN pc :
        GenEnded(r) /\ calls[r] = 1 /\ NothingUsable(outcome[r]) =>
            ret[r] = 129 /\ result[r] = FALLBACK_LIST

\* The completion was the empty array and the request was answered.
C5_Witness ==
    \E r \in DOMAIN pc :
        /\ pc[r] = "done" /\ status[r] = 200 /\ calls[r] = 1
        /\ outcome[r] = Json(Top("arr", <<>>))

\* C6: when the completion is an array of objects of which at least one has
\* the three keys, the result is exactly those objects, in order, each with
\* only the three keys and their values unchanged.
C6_ExactSubsequence ==
    \A r \in DOMAIN pc :
        ( /\ GenEnded(r) /\ calls[r] = 1
          /\ outcome[r].kind = "json" /\ outcome[r].v.t = "arr"
          /\ \A i \in 1..Len(outcome[r].v.items) : outcome[r].v.items[i].t = "obj"
          /\ \E i \in 1..Len(outcome[r].v.items) : IsValidObject(outcome[r].v.items[i]) )
        => ret[r] = 125 /\ result[r] = FilterMap(outcome[r].v.items)

\* An object without search_term was dropped and one with a fourth key was
\* accepted, cut down to three keys.
C6_Witness ==
    \E r \in DOMAIN pc :
        /\ GenEnded(r) /\ ret[r] = 125
        /\ outcome[r] = Json(Top("arr", <<ShortItem, ExtraItem>>))
        /\ Len(result[r]) = 1 /\ DOMAIN result[r][1] = REQUIRED

\* C7: every fallback result has exactly 3 entries, each with the three fields
\* holding non-empty strings, and any two fallback results are equal, also
\* after a caller has changed a list it was given earlier.
C7_FallbackFixed ==
    \A r \in DOMAIN pc :
        ret[r] \in {83, 129} =>
            /\ Len(result[r]) = 3
            /\ \A i \in 1..Len(result[r]) :
                  /\ DOMAIN result[r][i] = REQUIRED
                  /\ \A k \in REQUIRED :
                        result[r][i][k].t = "str" /\ result[r][i][k].s # ""
            /\ \A q \in DOMAIN pc : ret[q] \in {83, 129} => result[q] = result[r]

\* Two requests got the fallback list and the caller of one has changed its
\* copy.
C7_Witness ==
    \E r, q \in DOMAIN pc :
        /\ r # q
        /\ ret[r] \in {83, 129} /\ ret[q] \in {83, 129}
        /\ pc[r] = "done" /\ pc[q] = "done"
        /\ held[r] # result[r]

\* C8 (as claimed): an element that is not an object with the three keys is
\* dropped on its own, so an array with at least one valid object yields
\* exactly its valid objects.
C8_PerElement ==
    \A r \in DOMAIN pc :
        ( /\ GenEnded(r) /\ calls[r] = 1
          /\ outcome[r].kind = "json" /\ outcome[r].v.t = "arr"
          /\ \E i \in 1..Len(outcome[r].v.items) : IsValidObject(outcome[r].v.items[i]) )
        => result[r] = FilterMap(outcome[r].v.items)

\* C9: a request calls the completion service at most once; it responds only
\* after the call has returned or failed; and after a failed call or a
\* rejected output it ends with the fallback list, with no second call.
C9_SingleAttempt ==
    \A r \in DOMAIN pc :
        /\ calls[r] <= 1
        /\ status[r] # 0 /\ calls[r] > 0 => outcome[r] # NoCall
        /\ GenEnded(r) /\ calls[r] > 0 =>
              \/ ret[r] = 125 /\ ~NothingUsable(outcome[r])
              \/ ret[r] = 129 /\ result[r] = FALLBACK_LIST /\ calls[r] = 1

\* A request whose call raised was answered, with the fallback list, after
\* one call.
C9_Witness ==
    \E r \in DOMAIN pc :
        /\ pc[r] = "done" /\ status[r] = 200
        /\ outcome[r] = Raise /\ calls[r] = 1 /\ ret[r] = 129

\* Two finished requests with the same body and the same outcome of their own
\* call got the same response.
OwnInputsDecide ==
    \A r, q \in DOMAIN pc :
        pc[r] = "done" /\ pc[q] = "done" /\ body[r] = body[q] /\ outcome[r] = outcome[q]
            => status[r] = status[q] /\ resp[r] = resp[q]

\* C10: under every interleaving a request's response is decided by its own
\* body, the startup configuration and the outcome of its own call, and no
\* step changes the configuration.
C10_Independent == [](OwnInputsDecide) /\ [][config' = config]_vars

\* One request was answered with the fallback list after its call failed
\* while another, with the same body, is still waiting for the service.
C10_Witness ==
    \E r, q \in DOMAIN pc :
        /\ r # q /\ body[r] = body[q]
        /\ pc[r] = "wait" /\ pc[q] = "done" /\ ret[q] = 129

====
